---- MODULE Spec2Model ----
(***************************************************************************)
(* A model of four parts of the ilqgames repository:                       *)
(*                                                                         *)
(*  - RecedingHorizonSimulator (src/src/receding_horizon_simulator.cpp),   *)
(*    the driver that alternates warm-started solves with integration of   *)
(*    the true state (specification Spec);                                 *)
(*  - LQFeedbackSolver::Solve (src/unnamed/part_000, lines 592-697), the   *)
(*    backward pass of the LQ game solver (specification SpecLQ);          *)
(*  - ControlSliders (src/include/ilqgames/examples/oncoming_example.h,    *)
(*    lines 121-160), the stored slider values and their clamped accessors *)
(*    (specification SpecSliders);                                         *)
(*  - the constructor of FlatRoundaboutMergingExample                      *)
(*    (src/unnamed/part_000, lines 171-501), which registers the players'  *)
(*    costs and hands the solver its parameters (specification             *)
(*    SpecExample).                                                        *)
(*                                                                         *)
(* Time is counted in ticks of 0.05 s, so kExtraTime (0.1 s) is 2 ticks.   *)
(* Values the driver only passes around (the state x, the splicer's plan,  *)
(* a solver log) are kept as terms that record how they were computed.     *)
(***************************************************************************)
EXTENDS Integers, Sequences, FiniteSets, TLC

(***************************************************************************)
(* Bounds of the model.                                                    *)
(***************************************************************************)
\* Largest requested final_time, in ticks.
MaxFinalTime == 5
\* Largest planner_runtime, in ticks.
MaxPlannerRuntime == 2
\* Largest t0 of the initial solution's operating point, in ticks.
MaxInitialTime == 1
\* By how many ticks a measured solve time may exceed planner_runtime.
MaxOverrun == 1

\* constexpr Time kExtraTime = 0.1;  (2 ticks of 0.05 s)
kExtraTime == 2

\* Value of a variable that holds nothing yet.
None == [none |-> TRUE]

VARIABLES
    \* ---- RecedingHorizonSimulator ----
    pc,               \* position of the driver in its code
    final_time,       \* argument
    planner_runtime,  \* argument
    problem,          \* *problem: its set-up and the solution it holds
    logs,             \* std::vector<std::shared_ptr<const SolverLog>> logs
    elapsed_time,     \* Time elapsed_time
    splicer,          \* SolutionSplicer splicer: its current plan
    x,                \* VectorXf x
    t,                \* Time t
    initial_t0,       \* t0 of the operating point the initial solve returns
    \* ---- LQFeedbackSolver::Solve ----
    lqpc,             \* position of Solve in its code
    num_time_steps_,  \* member: the solver's horizon
    linearization,    \* argument, indexed from 0
    quadraticization, \* argument, indexed from 0
    strategies,       \* local: std::vector<Strategy>, players from 0
    kk,               \* local: loop index
    Zs_, zetas_,      \* members: running value of each player
    S_, Y_, X_,       \* members: workspaces of the linear system
    F_, beta_,        \* members: closed-loop step
    steps,            \* history: the kk of each backward step finished
    remembered,       \* history: an earlier call that returned, if any
    \* ---- ControlSliders ----
    guipc,                \* what was last done with the sliders
    logs_,                \* member: the logs the sliders range over
    interpolation_time_,  \* member: stored slider value
    solver_iterate_,      \* member: stored slider value
    log_index_,           \* member: stored slider value
    shown,                \* what the accessors returned when last read
    \* ---- FlatRoundaboutMergingExample ----
    expc,             \* position of the constructor in its code
    params,           \* argument: the caller's SolverParams
    revised_params,   \* local: SolverParams revised_params
    player_costs,     \* locals: p1_cost .. p4_cost, players from 0
    solver_           \* member: the solver and what it was built with

rhsVars == <<pc, final_time, planner_runtime, problem, logs, elapsed_time,
             splicer, x, t, initial_t0>>

lqVars == <<lqpc, num_time_steps_, linearization, quadraticization,
            strategies, kk, Zs_, zetas_, S_, Y_, X_, F_, beta_, steps,
            remembered>>

guiVars == <<guipc, logs_, interpolation_time_, solver_iterate_, log_index_,
             shown>>

exVars == <<expc, params, revised_params, player_costs, solver_>>

\* What each part's actions leave alone.
outsideRhs == <<lqVars, guiVars, exVars>>
outsideLq == <<rhsVars, guiVars, exVars>>
outsideGui == <<rhsVars, lqVars, exVars>>
outsideEx == <<rhsVars, lqVars, guiVars>>

vars == <<rhsVars, lqVars, guiVars, exVars>>

(***************************************************************************)
(* Collaborators of the driver whose code is outside the modelled files.   *)
(* Each returns the term that records its arguments.                       *)
(***************************************************************************)
\* problem->InitialState()
InitialState == <<>>

\* dynamics.Integrate(t0, t1, x0, operating point, strategies): the state
\* reached from x0 over [t0, t1] under the given plan.
Integrate(t0, t1, x0, plan) ==
    Append(x0, [from |-> t0, to |-> t1, plan |-> plan])

\* SolutionSplicer splicer(log): the plan is the log's final solution, which
\* starts at the t0 of its operating point.
SolutionSplicer(log, t0) == <<[log |-> log.k, at |-> t0]>>

\* splicer.CurrentOperatingPoint().t0
CurrentOperatingPointT0(plan) == plan[1].at

\* splicer.Splice(log, time)
Splice(plan, log, time) == Append(plan, [log |-> log.k, at |-> time])

\* problem->Solve(...): the log of the k-th solver invocation (k from 0),
\* computed from what the problem holds at the call.
SolveLog(k, prob, deadline) ==
    [k |-> k, deadline |-> deadline, setup |-> prob.setup,
     warm |-> prob.solution]

\* What problem->Solve(...) leaves in the problem: either what was there, or
\* the solution it returns in the log, which starts at t0 and is not spliced
\* with anything.
AfterSolve(prob, log, t0, keeps) ==
    IF keeps THEN [prob EXCEPT !.solution = SolutionSplicer(log, t0)]
    ELSE prob

\* problem->SetUpNextRecedingHorizon(x, t, planner_runtime)
SetUpNextRecedingHorizon(prob, x0, t0, runtime) ==
    [prob EXCEPT !.setup = [x |-> x0, t |-> t0, runtime |-> runtime]]

\* problem->OverwriteSolution(operating point, strategies)
OverwriteSolution(prob, plan) == [prob EXCEPT !.solution = plan]

\* Wall-clock durations a solve can be measured to take. clock is
\* std::chrono::system_clock, which is not monotonic: one tick of setback
\* stands for a clock adjusted during the solve.
SolveDurations(runtime) == (0 - 1)..(runtime + MaxOverrun)

\* Index of the newest log, logs.back(), counting the initial solve as 0.
Newest == Len(logs) - 1

\* The LQ solver takes no part in the driver's specification.
LqIdle ==
    /\ lqpc = "idle"
    /\ num_time_steps_ = None
    /\ linearization = None
    /\ quadraticization = None
    /\ strategies = None
    /\ kk = None
    /\ Zs_ = None
    /\ zetas_ = None
    /\ S_ = None
    /\ Y_ = None
    /\ X_ = None
    /\ F_ = None
    /\ beta_ = None
    /\ steps = None
    /\ remembered = None

\* The sliders take no part in the other specifications.
GuiIdle ==
    /\ guipc = "idle"
    /\ logs_ = None
    /\ interpolation_time_ = None
    /\ solver_iterate_ = None
    /\ log_index_ = None
    /\ shown = None

\* Nor does the example's constructor.
ExIdle ==
    /\ expc = "idle"
    /\ params = None
    /\ revised_params = None
    /\ player_costs = None
    /\ solver_ = None

(***************************************************************************)
(* RecedingHorizonSimulator                                                *)
(***************************************************************************)
RhsInit ==
    /\ GuiIdle
    /\ ExIdle
    /\ pc = "entry"
    /\ final_time \in 0..MaxFinalTime
    /\ planner_runtime \in 0..MaxPlannerRuntime
    /\ initial_t0 \in 0..MaxInitialTime
    /\ problem \in {None, [setup |-> None, solution |-> None]}
    /\ logs = <<>>
    /\ elapsed_time = None
    /\ splicer = None
    /\ x = None
    /\ t = None
    /\ LqIdle

\* Line 67: CHECK_NOTNULL(problem) fails.
NullProblem ==
    /\ pc = "entry"
    /\ problem = None
    /\ pc' = "aborted"
    /\ UNCHANGED <<final_time, planner_runtime, problem, logs, elapsed_time,
                   splicer, x, t, initial_t0>>
    /\ UNCHANGED outsideRhs

\* InitialSolve that advances t by the time the initial solve took.
InitialSolve_advanced ==
    /\ pc = "entry"
    /\ problem # None
    /\ \E e \in SolveDurations(MaxPlannerRuntime), keeps \in BOOLEAN :
         LET log == SolveLog(0, problem, None)
             plan == SolutionSplicer(log, initial_t0)
         IN  /\ logs' = Append(logs, log)
             /\ problem' = AfterSolve(problem, log, initial_t0, keeps)
             /\ elapsed_time' = e
             /\ splicer' = plan
             /\ x' = InitialState
             /\ t' = CurrentOperatingPointT0(plan) + e
    /\ pc' = "loop"
    /\ UNCHANGED <<final_time, planner_runtime, initial_t0>>
    /\ UNCHANGED outsideRhs

\* Lines 67-91: initial solve, splicer construction, x and t.
InitialSolve ==
    /\ pc = "entry"
    /\ problem # None
    /\ \E e \in SolveDurations(MaxPlannerRuntime), keeps \in BOOLEAN :
         LET log == SolveLog(0, problem, None)
             plan == SolutionSplicer(log, initial_t0)
         IN  /\ logs' = Append(logs, log)
             /\ problem' = AfterSolve(problem, log, initial_t0, keeps)
             /\ elapsed_time' = e
             /\ splicer' = plan
             /\ x' = InitialState
             /\ t' = CurrentOperatingPointT0(plan)
    /\ pc' = "loop"
    /\ UNCHANGED <<final_time, planner_runtime, initial_t0>>
    /\ UNCHANGED outsideRhs

\* SetUpNext with the loop test written t <= final_time.
SetUpNext_inclusive ==
    /\ pc = "loop"
    /\ t <= final_time
    /\ problem' = SetUpNextRecedingHorizon(problem, x, t, planner_runtime)
    /\ pc' = "setup"
    /\ UNCHANGED <<final_time, planner_runtime, logs, elapsed_time, splicer,
                   x, t, initial_t0>>
    /\ UNCHANGED outsideRhs

\* Lines 92-94: the loop test succeeds; set up the next problem.
SetUpNext ==
    /\ pc = "loop"
    /\ t < final_time
    /\ problem' = SetUpNextRecedingHorizon(problem, x, t, planner_runtime)
    /\ pc' = "setup"
    /\ UNCHANGED <<final_time, planner_runtime, logs, elapsed_time, splicer,
                   x, t, initial_t0>>
    /\ UNCHANGED outsideRhs

\* WarmSolve that stores the new log over logs.back() instead of appending.
WarmSolve_overwrite ==
    /\ pc = "setup"
    /\ \E e \in SolveDurations(planner_runtime), keeps \in BOOLEAN :
         LET log == SolveLog(Len(logs), problem, planner_runtime)
         IN  /\ logs' = [logs EXCEPT ![Len(logs)] = log]
             /\ problem' = AfterSolve(problem, log, problem.setup.t, keeps)
             /\ elapsed_time' = e
    /\ pc' = "solved"
    /\ UNCHANGED <<final_time, planner_runtime, splicer, x, t, initial_t0>>
    /\ UNCHANGED outsideRhs

\* Lines 96-99: warm-started solve, timed.
WarmSolve ==
    /\ pc = "setup"
    /\ \E e \in SolveDurations(planner_runtime), keeps \in BOOLEAN :
         LET log == SolveLog(Len(logs), problem, planner_runtime)
         IN  /\ logs' = Append(logs, log)
             /\ problem' = AfterSolve(problem, log, problem.setup.t, keeps)
             /\ elapsed_time' = e
    /\ pc' = "solved"
    /\ UNCHANGED <<final_time, planner_runtime, splicer, x, t, initial_t0>>
    /\ UNCHANGED outsideRhs

\* CheckDeadline with the check compiled out.
CheckDeadline_unchecked ==
    /\ pc = "solved"
    /\ pc' = "checked"
    /\ UNCHANGED <<final_time, planner_runtime, problem, logs, elapsed_time,
                   splicer, x, t, initial_t0>>
    /\ UNCHANGED outsideRhs

\* Line 101: CHECK_LE(elapsed_time, planner_runtime).
CheckDeadline ==
    /\ pc = "solved"
    /\ pc' = IF elapsed_time <= planner_runtime THEN "checked" ELSE "aborted"
    /\ UNCHANGED <<final_time, planner_runtime, problem, logs, elapsed_time,
                   splicer, x, t, initial_t0>>
    /\ UNCHANGED outsideRhs

\* IntegrateElapsed under the plan with the new log already spliced in.
IntegrateElapsed_newplan ==
    /\ pc = "checked"
    /\ x' = Integrate(t, t + elapsed_time, x,
                      Splice(splicer, logs[Len(logs)], t))
    /\ t' = t + elapsed_time
    /\ pc' = "advanced"
    /\ UNCHANGED <<final_time, planner_runtime, problem, logs, elapsed_time,
                   splicer, initial_t0>>
    /\ UNCHANGED outsideRhs

\* Lines 104-108: integrate over the solve time under the splicer's plan.
IntegrateElapsed ==
    /\ pc = "checked"
    /\ x' = Integrate(t, t + elapsed_time, x, splicer)
    /\ t' = t + elapsed_time
    /\ pc' = "advanced"
    /\ UNCHANGED <<final_time, planner_runtime, problem, logs, elapsed_time,
                   splicer, initial_t0>>
    /\ UNCHANGED outsideRhs

\* SpliceLog at the time of the loop head, as if t had not been advanced.
SpliceLog_early ==
    /\ pc = "advanced"
    /\ splicer' = Splice(splicer, logs[Len(logs)], t - elapsed_time)
    /\ pc' = "spliced"
    /\ UNCHANGED <<final_time, planner_runtime, problem, logs, elapsed_time,
                   x, t, initial_t0>>
    /\ UNCHANGED outsideRhs

\* Lines 110-111: splicer.Splice(*logs.back(), t).
SpliceLog ==
    /\ pc = "advanced"
    /\ splicer' = Splice(splicer, logs[Len(logs)], t)
    /\ pc' = "spliced"
    /\ UNCHANGED <<final_time, planner_runtime, problem, logs, elapsed_time,
                   x, t, initial_t0>>
    /\ UNCHANGED outsideRhs

\* Overwrite with the solution of the newest log alone, not spliced.
Overwrite_unspliced ==
    /\ pc = "spliced"
    /\ problem' = OverwriteSolution(problem,
                                    SolutionSplicer(logs[Len(logs)], t))
    /\ pc' = "overwritten"
    /\ UNCHANGED <<final_time, planner_runtime, logs, elapsed_time, splicer,
                   x, t, initial_t0>>
    /\ UNCHANGED outsideRhs

\* Lines 113-115: problem->OverwriteSolution(spliced plan).
Overwrite ==
    /\ pc = "spliced"
    /\ problem' = OverwriteSolution(problem, splicer)
    /\ pc' = "overwritten"
    /\ UNCHANGED <<final_time, planner_runtime, logs, elapsed_time, splicer,
                   x, t, initial_t0>>
    /\ UNCHANGED outsideRhs

\* IntegrateExtra that advances t by elapsed_time again.
IntegrateExtra_elapsed ==
    /\ pc = "overwritten"
    /\ x' = Integrate(t, t + kExtraTime, x, splicer)
    /\ t' = t + elapsed_time
    /\ pc' = "loop"
    /\ UNCHANGED <<final_time, planner_runtime, problem, logs, elapsed_time,
                   splicer, initial_t0>>
    /\ UNCHANGED outsideRhs

\* IntegrateExtra that integrates x but leaves t where it was.
IntegrateExtra_frozen_t ==
    /\ pc = "overwritten"
    /\ x' = Integrate(t, t + kExtraTime, x, splicer)
    /\ t' = t
    /\ pc' = "loop"
    /\ UNCHANGED <<final_time, planner_runtime, problem, logs, elapsed_time,
                   splicer, initial_t0>>
    /\ UNCHANGED outsideRhs

\* IntegrateExtra that advances by half of kExtraTime.
IntegrateExtra_half ==
    /\ pc = "overwritten"
    /\ x' = Integrate(t, t + kExtraTime \div 2, x, splicer)
    /\ t' = t + kExtraTime \div 2
    /\ pc' = "loop"
    /\ UNCHANGED <<final_time, planner_runtime, problem, logs, elapsed_time,
                   splicer, initial_t0>>
    /\ UNCHANGED outsideRhs

\* Lines 117-122: integrate a little more; back to the loop test.
IntegrateExtra ==
    /\ pc = "overwritten"
    /\ x' = Integrate(t, t + kExtraTime, x, splicer)
    /\ t' = t + kExtraTime
    /\ pc' = "loop"
    /\ UNCHANGED <<final_time, planner_runtime, problem, logs, elapsed_time,
                   splicer, initial_t0>>
    /\ UNCHANGED outsideRhs

\* Lines 92, 125: the loop test fails; return logs.
Return ==
    /\ pc = "loop"
    /\ ~(t < final_time)
    /\ pc' = "returned"
    /\ UNCHANGED <<final_time, planner_runtime, problem, logs, elapsed_time,
                   splicer, x, t, initial_t0>>
    /\ UNCHANGED outsideRhs

Init == RhsInit

Next ==
    \/ NullProblem
    \/ InitialSolve
    \/ SetUpNext
    \/ WarmSolve
    \/ CheckDeadline
    \/ IntegrateElapsed
    \/ SpliceLog
    \/ Overwrite
    \/ IntegrateExtra
    \/ Return

Spec == Init /\ [][Next]_vars

(***************************************************************************)
(* Properties of RecedingHorizonSimulator (specification Spec).            *)
(***************************************************************************)
\* The initial solve has returned: logs, splicer, x and t exist.
Started == Len(logs) > 0

\* Number of loop iterations that ran to their end: each one integrates x
\* twice.
CompletedIterations == Len(x) \div 2

\* Time at which the state term xx ends.
EndTime(xx) == IF xx = <<>> THEN initial_t0 ELSE xx[Len(xx)].to

\* The intervals of xx follow one another without a gap, from t0 on.
Contiguous(xx) ==
    \A i \in 1..Len(xx) :
        xx[i].from = (IF i = 1 THEN initial_t0 ELSE xx[i - 1].to)

\* Number of Splice calls made with log k.
SpliceCount(k) ==
    Cardinality({i \in 1..Len(splicer) : splicer[i].log = k})

\* C1: the driver returns only when t >= final_time; at the loop head it
\* starts a warm-started iteration if and only if t < final_time; and when
\* final_time <= t0 it returns one log without having set up any problem.
C1_LoopUntilFinalTime ==
    [][ /\ (pc' = "returned" => pc = "loop" /\ t' >= final_time')
        /\ (pc = "loop" => (pc' = "setup" <=> t < final_time))
        /\ (pc = "loop" => (pc' = "returned" <=> ~(t < final_time)))
        /\ (pc' = "setup" => pc = "loop")
        /\ (pc' = "returned" /\ final_time <= initial_t0 =>
               Len(logs') = 1 /\ problem'.setup = None /\ x' = InitialState)
      ]_vars

C1_Witness ==
    pc = "returned" /\ Len(logs) = 3 /\ t > final_time

\* C2: a warm-started solve measured to take longer than planner_runtime
\* aborts the driver on the spot: x, t, the splicer and the problem are as
\* they were, nothing is returned afterwards, and the steps after the check
\* are reached only with elapsed_time <= planner_runtime.
C2_DeadlineIsFatal ==
    [][ /\ (pc = "solved" /\ elapsed_time > planner_runtime =>
               /\ pc' = "aborted"
               /\ UNCHANGED <<x, t, splicer, problem, logs>>)
        /\ (pc = "aborted" => pc' = "aborted")
        /\ (pc' \in {"checked", "advanced", "spliced", "overwritten"} =>
               elapsed_time' <= planner_runtime')
      ]_vars

C2_Witness ==
    /\ pc = "aborted"
    /\ Len(logs) = 3
    /\ elapsed_time > planner_runtime
    /\ Len(splicer) = 2

\* C3: once the state has been advanced over the solve time, its last
\* interval is [t_head, t_head + e], t is t_head + e, and the plan it was
\* integrated under holds the logs before the newest one and not the newest.
C3_AdvanceUnderOldPlan ==
    pc \in {"advanced", "spliced", "overwritten"} =>
        LET seg == x[Len(x)]
            head == logs[Len(logs)].setup.t
        IN  /\ seg.from = head
            /\ seg.to = head + elapsed_time
            /\ t = head + elapsed_time
            /\ {seg.plan[i].log : i \in 1..Len(seg.plan)} = 0..(Newest - 1)
            /\ pc = "advanced" => seg.plan = splicer

C3_Witness ==
    /\ pc = "advanced"
    /\ elapsed_time > 0
    /\ Len(logs) = 3
    /\ Len(x[Len(x)].plan) = 2

\* C4: every warm-started log whose iteration passed the Splice call is in
\* the splicer exactly once and in solve order, the newest log is not in it
\* before that call, and the newest splice is at t_head + e, which is t.
C4_SplicedOnce ==
    Started =>
        /\ \A k \in 1..Newest :
              SpliceCount(k) =
                 (IF k = Newest /\
                     pc \in {"solved", "checked", "advanced", "aborted"}
                  THEN 0 ELSE 1)
        /\ \A i \in 1..Len(splicer) : splicer[i].log = i - 1
        /\ pc \in {"spliced", "overwritten"} =>
              LET last == splicer[Len(splicer)] IN
              /\ last.log = Newest
              /\ last.at = logs[Len(logs)].setup.t + elapsed_time
              /\ last.at = t

C4_Witness ==
    /\ pc = "setup"
    /\ Len(logs) = 2
    /\ Len(splicer) = 2
    /\ splicer[2].at > logs[2].setup.t

\* C5: when an iteration ends, the last interval of x is
\* [t_splice, t_splice + kExtraTime], integrated under the plan that holds
\* the newest log, and t is t_splice + kExtraTime.
C5_ExtraAdvance ==
    pc = "loop" /\ Newest >= 1 =>
        LET seg == x[Len(x)]
            last == splicer[Len(splicer)]
        IN  /\ last.log = Newest
            /\ seg.from = last.at
            /\ seg.to = last.at + kExtraTime
            /\ seg.plan = splicer
            /\ t = last.at + kExtraTime

C5_Witness ==
    /\ pc = "loop"
    /\ Newest = 2
    /\ elapsed_time > 0
    /\ elapsed_time # kExtraTime

\* C6: x always ends at time t and its intervals are contiguous from t0;
\* every SetUpNextRecedingHorizon call received such an x together with the
\* time it ends at, and planner_runtime.
C6_LockStep ==
    Started =>
        /\ EndTime(x) = t
        /\ Contiguous(x)
        /\ \A k \in 1..Newest :
              LET s == logs[k + 1].setup IN
              /\ EndTime(s.x) = s.t
              /\ Contiguous(s.x)
              /\ Len(s.x) = 2 * (k - 1)
              /\ s.runtime = planner_runtime

C6_Witness ==
    /\ pc = "setup"
    /\ Len(problem.setup.x) = 4
    /\ problem.setup.t = t
    /\ t > initial_t0 + kExtraTime

\* C7: logs only grows, by one entry at its end per solver invocation; entry
\* k is the log of invocation k, the initial solve being 0; and the list
\* returned has 1 + (completed iterations) entries.
C7_LogsAppendOnly ==
    [][ /\ \/ logs' = logs
           \/ /\ Len(logs') = Len(logs) + 1
              /\ SubSeq(logs', 1, Len(logs)) = logs
        /\ \A i \in 1..Len(logs') : logs'[i].k = i - 1
        /\ \A i \in 1..Len(logs') :
              logs'[i].deadline = (IF i = 1 THEN None ELSE planner_runtime)
        /\ pc' = "returned" => Len(logs') = 1 + CompletedIterations'
      ]_vars

C7_Witness ==
    pc = "returned" /\ Len(logs) = 3 /\ CompletedIterations = 2

\* C20: in every iteration the problem's solution is overwritten with the
\* splicer's plan after the newest log has been spliced into it, before the
\* extra advance and before the next set-up; the problem holds that plan
\* until the next warm-started solve, which therefore starts from the
\* spliced plan and not from what the previous solve left in the problem.
C20_OverwriteAfterSplice ==
    /\ pc = "overwritten" =>
          /\ problem.solution = splicer
          /\ Len(splicer) = Newest + 1
          /\ splicer[Len(splicer)] = [log |-> Newest, at |-> t]
          /\ Len(x) = 2 * Newest - 1
          /\ problem.setup.x = SubSeq(x, 1, Len(x) - 1)
    /\ pc \in {"loop", "setup"} /\ Newest >= 1 => problem.solution = splicer
    /\ Started =>
          \A k \in 2..Newest : logs[k + 1].warm = SubSeq(splicer, 1, k)

C20_Witness ==
    /\ pc = "solved"
    /\ Newest = 2
    /\ logs[2].setup.t < logs[3].setup.t
    /\ logs[3].warm = SubSeq(splicer, 1, 2)
    /\ logs[3].warm[2].log = 1
    /\ logs[3].warm[2].at > initial_t0
    /\ problem.solution = SolutionSplicer(logs[3], problem.setup.t)

\* Every elapsed time measured so far in a warm-started iteration is at
\* least 0 and at most planner_runtime. The first integration of each
\* iteration, an odd entry of x, spans the elapsed time of that iteration.
ElapsedWithinBudget ==
    /\ \A i \in 1..Len(x) :
          i % 2 = 1 =>
             /\ x[i].to - x[i].from >= 0
             /\ x[i].to - x[i].from <= planner_runtime
    /\ pc \in {"solved", "checked"} =>
          elapsed_time >= 0 /\ elapsed_time <= planner_runtime

\* Number of warm-started iterations begun so far.
IterationsStarted == Newest + (IF pc = "setup" THEN 1 ELSE 0)

\* The least integer that is at least a / b, for b > 0.
CeilDiv(a, b) == IF a <= 0 THEN 0 ELSE (a + b - 1) \div b

\* C22: while every measured elapsed time is within [0, planner_runtime],
\* every iteration that ran to its end advanced t by at least kExtraTime,
\* and the driver begins at most ceil((final_time - t0) / kExtraTime)
\* warm-started iterations.
C22_BoundedIterations ==
    Started /\ ElapsedWithinBudget =>
        /\ IterationsStarted
             <= CeilDiv(final_time - initial_t0, kExtraTime)
        /\ t >= initial_t0 + kExtraTime * CompletedIterations
        /\ pc = "loop" => t = EndTime(x)

C22_Witness ==
    /\ pc = "returned"
    /\ ElapsedWithinBudget
    /\ final_time - initial_t0 = 5
    /\ Newest = 3
    /\ CeilDiv(final_time - initial_t0, kExtraTime) = 3

\* C23: while every measured elapsed time is within [0, planner_runtime],
\* t at the end of an iteration is greater than t at its start, and when
\* the driver returns after at least one iteration,
\* final_time <= t < final_time + planner_runtime + kExtraTime.
C23_BoundedOvershoot ==
    Started /\ ElapsedWithinBudget =>
        /\ \A k \in 1..CompletedIterations :
              /\ x[2 * k].to > x[2 * k - 1].from
              /\ x[2 * k].from = x[2 * k - 1].to
        /\ pc = "returned" /\ Newest >= 1 =>
              /\ t = EndTime(x)
              /\ final_time <= t
              /\ t < final_time + planner_runtime + kExtraTime

C23_Witness ==
    /\ pc = "returned"
    /\ ElapsedWithinBudget
    /\ Newest = 3
    /\ planner_runtime = 2
    /\ t = final_time + planner_runtime + kExtraTime - 1

FieldOrder == 2^13 - 1
NonFinite == 0 - 1
Rat(n) == n % FieldOrder
Zero == Rat(0)

IsFinite(a) == a # NonFinite

RAdd(a, b) ==
    IF IsFinite(a) /\ IsFinite(b) THEN (a + b) % FieldOrder ELSE NonFinite
RNeg(a) == IF IsFinite(a) THEN (0 - a) % FieldOrder ELSE NonFinite
RSub(a, b) == RAdd(a, RNeg(b))
RMul(a, b) ==
    IF IsFinite(a) /\ IsFinite(b) THEN (a * b) % FieldOrder ELSE NonFinite

\* a to the power n
RECURSIVE RPow(_, _)
RPow(a, n) ==
    IF n = 0 THEN 1
    ELSE LET h == RPow(a, n \div 2)
             sq == (h * h) % FieldOrder
         IN  IF n % 2 = 0 THEN sq ELSE (sq * a) % FieldOrder

RDiv(a, b) ==
    IF IsFinite(a) /\ IsFinite(b) /\ b # 0
    THEN (a * RPow(b, FieldOrder - 2)) % FieldOrder ELSE NonFinite

\* f[1] + ... + f[n]
RECURSIVE RSum(_, _)
RSum(f, n) == IF n = 0 THEN Zero ELSE RAdd(RSum(f, n - 1), f[n])

(***************************************************************************)
(* Matrices are sequences of rows; a vector is a matrix of one column.     *)
(***************************************************************************)
Rows(M) == Len(M)
Cols(M) == Len(M[1])
Mat(r, c, v) == [i \in 1..r |-> [j \in 1..c |-> v]]
\* A matrix of integers as a matrix of field elements.
RatMat(M) == [i \in 1..Len(M) |-> [j \in 1..Len(M[i]) |-> Rat(M[i][j])]]
Transpose(M) == [j \in 1..Cols(M) |-> [i \in 1..Rows(M) |-> M[i][j]]]
MatAdd(A, B) ==
    [i \in 1..Rows(A) |-> [j \in 1..Cols(A) |-> RAdd(A[i][j], B[i][j])]]
MatSub(A, B) ==
    [i \in 1..Rows(A) |-> [j \in 1..Cols(A) |-> RSub(A[i][j], B[i][j])]]
MatMul(A, B) ==
    [i \in 1..Rows(A) |-> [j \in 1..Cols(B) |->
        RSum([k \in 1..Cols(A) |-> RMul(A[i][k], B[k][j])], Cols(A))]]
\* M.block(r0, c0, rows, cols), offsets from 0
Block(M, r0, c0, rows, cols) ==
    [i \in 1..rows |-> [j \in 1..cols |-> M[r0 + i][c0 + j]]]
\* M.block(r0, c0, Rows(B), Cols(B)) = B
SetBlock(M, r0, c0, B) ==
    [i \in 1..Rows(M) |-> [j \in 1..Cols(M) |->
        IF i - r0 \in 1..Rows(B) /\ j - c0 \in 1..Cols(B)
        THEN B[i - r0][j - c0] ELSE M[i][j]]]

\* M without row 1 and column c
Minor(M, c) ==
    [i \in 1..(Rows(M) - 1) |-> [j \in 1..(Cols(M) - 1) |->
        M[i + 1][IF j < c THEN j ELSE j + 1]]]

RECURSIVE Det(_)
Det(M) ==
    IF Rows(M) = 1 THEN M[1][1]
    ELSE RSum([c \in 1..Cols(M) |->
                 LET term == RMul(M[1][c], Det(Minor(M, c)))
                 IN  IF c % 2 = 1 THEN term ELSE RNeg(term)], Cols(M))

\* M with column c replaced by column k of Y
ReplaceCol(M, c, Y, k) ==
    [i \in 1..Rows(M) |-> [j \in 1..Cols(M) |->
        IF j = c THEN Y[i][k] ELSE M[i][j]]]

\* S.householderQr().solve(Y): the solution of S X = Y when S is invertible;
\* when it is not, the back substitution divides by zero.
QrSolve(S, Y) ==
    LET d == Det(S) IN
    [i \in 1..Rows(S) |-> [k \in 1..Cols(Y) |->
        RDiv(Det(ReplaceCol(S, i, Y, k)), d)]]

(***************************************************************************)
(* LQFeedbackSolver::Solve. Players and time steps are numbered from 0, as *)
(* in the code; a std::vector is a function on 0..size-1.                  *)
(***************************************************************************)
\* Largest num_time_steps_ of the solver.
MaxNumTimeSteps == 3

\* Dimensions of the dynamics: those of TwoPlayerPointMass1D.
NumPlayers == 2
XDim == 2
UDim(ii) == 1

Players == 0..(NumPlayers - 1)

Size(v) == Cardinality(DOMAIN v)
Back(v) == v[Size(v) - 1]

\* Sum of UDim over the players before ii: cumulative_udim_row / _col.
RECURSIVE CumulativeUDim(_)
CumulativeUDim(ii) ==
    IF ii = 0 THEN 0 ELSE CumulativeUDim(ii - 1) + UDim(ii - 1)

TotalUDim == CumulativeUDim(NumPlayers)

(***************************************************************************)
(* Inputs of Solve: four families of LQ games.                             *)
(*   invariant   the time-invariant game of the solver's test;             *)
(*   varying     every term depends on the time step, the gradients are    *)
(*               not zero, and player 0 has no cost on player 1's control; *)
(*   asymmetric  state cost Hessians that are not symmetric;               *)
(*   singular    no control authority and no control cost, so S = 0.       *)
(***************************************************************************)
Shapes == {"invariant", "varying", "asymmetric", "singular"}

LinearizationAt(shape, k) ==
    CASE shape = "invariant" ->
           [A |-> RatMat(<<<<1, 1>>, <<0, 1>>>>),
            Bs |-> [ii \in Players |->
                      RatMat(IF ii = 0 THEN <<<<0>>, <<1>>>>
                                       ELSE <<<<1>>, <<1>>>>)]]
      [] shape = "varying" ->
           [A |-> RatMat(<<<<1, k>>, <<0, 1>>>>),
            Bs |-> [ii \in Players |->
                      RatMat(IF ii = 0 THEN <<<<k>>, <<1>>>>
                                       ELSE <<<<1>>, <<0>>>>)]]
      [] shape = "asymmetric" ->
           [A |-> RatMat(<<<<1, 1>>, <<0, 1>>>>),
            Bs |-> [ii \in Players |->
                      RatMat(IF ii = 0 THEN <<<<0>>, <<1>>>>
                                       ELSE <<<<1>>, <<0>>>>)]]
      [] shape = "singular" ->
           [A |-> RatMat(<<<<1, 1>>, <<0, 1>>>>),
            Bs |-> [ii \in Players |-> RatMat(<<<<0>>, <<0>>>>)]]

SingleCost(hess, grad) == [hess |-> RatMat(hess), grad |-> RatMat(grad)]

StateCostAt(shape, k, ii) ==
    CASE shape = "invariant" ->
           IF ii = 0 THEN SingleCost(<<<<1, 0>>, <<0, 1>>>>, <<<<0>>, <<0>>>>)
                     ELSE SingleCost(<<<<2, 0>>, <<0, 2>>>>, <<<<0>>, <<0>>>>)
      [] shape = "varying" ->
           IF ii = 0
           THEN SingleCost(<<<<1, 0>>, <<0, k + 1>>>>, <<<<1>>, <<0>>>>)
           ELSE SingleCost(<<<<2, 1>>, <<1, 2>>>>, <<<<0>>, <<k>>>>)
      [] shape = "asymmetric" ->
           IF ii = 0 THEN SingleCost(<<<<1, 1>>, <<0, 1>>>>, <<<<1>>, <<0>>>>)
                     ELSE SingleCost(<<<<1, 0>>, <<2, 1>>>>, <<<<0>>, <<1>>>>)
      [] shape = "singular" ->
           SingleCost(<<<<1, 0>>, <<0, 1>>>>, <<<<0>>, <<0>>>>)

\* The players whose control player ii has a cost on, other than itself.
OtherControls(shape, ii) ==
    CASE shape = "varying" -> IF ii = 0 THEN {} ELSE Players \ {ii}
      [] shape = "singular" -> {}
      [] OTHER -> Players \ {ii}

ControlCostAt(shape, k, ii, jj) ==
    CASE shape = "invariant" ->
           SingleCost(<<<<IF ii = jj THEN 1 ELSE ii + 1>>>>, <<<<0>>>>)
      [] shape = "varying" ->
           IF ii = jj
           THEN SingleCost(<<<<k + ii + 1>>>>, <<<<IF ii = 0 THEN 1 ELSE k>>>>)
           ELSE SingleCost(<<<<1>>>>, <<<<1>>>>)
      [] shape = "asymmetric" ->
           SingleCost(<<<<IF ii = jj THEN 1 ELSE 2>>>>,
                      <<<<IF ii = jj THEN 1 ELSE 0>>>>)
      [] shape = "singular" -> SingleCost(<<<<0>>>>, <<<<0>>>>)

\* No own control cost is missing.
Nowhere == [player |-> 0 - 1, step |-> 0 - 1]

\* quadraticization[k][ii]; `missing` names the one (player, step) whose own
\* control cost is not in the map.
QuadraticizationAt(shape, k, missing) ==
    [ii \in Players |->
        [state |-> StateCostAt(shape, k, ii),
         control |->
            [jj \in (OtherControls(shape, ii) \cup
                     (IF missing = [player |-> ii, step |-> k]
                      THEN {} ELSE {ii})) |->
                ControlCostAt(shape, k, ii, jj)]]]

\* What the workspaces can hold before they are first written.
JunkValues == {Zero, Rat(7)}

\* Strategy(horizon, xdim, udim)
Strategy(horizon, xdim, udim) ==
    [Ps |-> [k \in 0..(horizon - 1) |-> Mat(udim, xdim, Zero)],
     alphas |-> [k \in 0..(horizon - 1) |-> Mat(udim, 1, Zero)]]

\* Ps_[ii] and alphas_[ii]: the blocks of X_ that hold player ii's gain and
\* feedforward term.
Ps_(X, ii) == Block(X, CumulativeUDim(ii), 0, UDim(ii), XDim)
alphas_(X, ii) == Block(X, CumulativeUDim(ii), XDim, UDim(ii), 1)

RhsIdle ==
    /\ pc = "idle"
    /\ final_time = None
    /\ planner_runtime = None
    /\ problem = None
    /\ logs = <<>>
    /\ elapsed_time = None
    /\ splicer = None
    /\ x = None
    /\ t = None
    /\ initial_t0 = None

\* The arguments that Solve is called with: a family of games, the lengths
\* of the two sequences, and the missing own control cost if any.
InputChoices(horizon) ==
    {c \in [shape : Shapes,
            nlin : (horizon - 1)..(horizon + 1),
            nquad : (horizon - 1)..(horizon + 1),
            missing : {Nowhere} \cup
                      [player : Players, step : 0..(horizon - 1)]] :
        /\ c.nquad > 0
        /\ (c.nlin # horizon \/ c.nquad # horizon) =>
               c.shape = "varying" /\ c.missing = Nowhere
        /\ c.missing # Nowhere => c.shape \in {"invariant", "varying"}}

LinearizationOf(c) ==
    [k \in 0..(c.nlin - 1) |-> LinearizationAt(c.shape, k)]

QuadraticizationOf(c) ==
    [k \in 0..(c.nquad - 1) |-> QuadraticizationAt(c.shape, k, c.missing)]

LqInit ==
    /\ RhsIdle
    /\ GuiIdle
    /\ ExIdle
    /\ lqpc = "entry"
    /\ num_time_steps_ \in 1..MaxNumTimeSteps
    /\ \E c \in InputChoices(num_time_steps_), junk \in JunkValues :
         /\ junk # Zero => c.shape = "varying"
         /\ linearization = LinearizationOf(c)
         /\ quadraticization = QuadraticizationOf(c)
         /\ Zs_ = [ii \in Players |-> Mat(XDim, XDim, junk)]
         /\ zetas_ = [ii \in Players |-> Mat(XDim, 1, junk)]
         /\ S_ = Mat(TotalUDim, TotalUDim, junk)
         /\ Y_ = Mat(TotalUDim, XDim + 1, junk)
         /\ X_ = Mat(TotalUDim, XDim + 1, junk)
         /\ F_ = Mat(XDim, XDim, junk)
         /\ beta_ = Mat(XDim, 1, junk)
    /\ strategies = None
    /\ kk = None
    /\ steps = <<>>
    /\ remembered = <<>>

\* SizeMismatch with the checks made after Zs and zetas have been set.
SizeMismatch_late ==
    /\ lqpc = "entry"
    /\ \/ Size(linearization) # num_time_steps_
       \/ Size(quadraticization) # num_time_steps_
    /\ Zs_' = [ii \in Players |-> Back(quadraticization)[ii].state.hess]
    /\ zetas_' = [ii \in Players |-> Back(quadraticization)[ii].state.grad]
    /\ lqpc' = "aborted"
    /\ UNCHANGED <<num_time_steps_, linearization, quadraticization,
                   strategies, kk, S_, Y_, X_, F_, beta_, steps,
                   remembered>>
    /\ UNCHANGED outsideLq

\* Lines 596-597: a CHECK_EQ on the sizes of the arguments fails.
SizeMismatch ==
    /\ lqpc = "entry"
    /\ \/ Size(linearization) # num_time_steps_
       \/ Size(quadraticization) # num_time_steps_
    /\ lqpc' = "aborted"
    /\ UNCHANGED <<num_time_steps_, linearization, quadraticization,
                   strategies, kk, Zs_, zetas_, S_, Y_, X_, F_, beta_, steps,
                   remembered>>
    /\ UNCHANGED outsideLq

\* NewStrategies with one entry per backward step only.
NewStrategies_short(horizon) ==
    [ii \in Players |-> Strategy(horizon - 1, XDim, UDim(ii))]

\* Lines 599-604: one Strategy per player.
NewStrategies(horizon) ==
    [ii \in Players |-> Strategy(horizon, XDim, UDim(ii))]

\* Lines 606-610: Zs and zetas at the final time.
InitialZs(quad) == [ii \in Players |-> Back(quad)[ii].state.hess]
InitialZetas(quad) == [ii \in Players |-> Back(quad)[ii].state.grad]

\* FirstStep that is never below 0.
FirstStep_floor(horizon) == IF horizon < 2 THEN 0 ELSE horizon - 2

\* FirstStep that starts the loop at the last entry.
FirstStep_last(horizon) == horizon - 1

\* Line 615: int kk = num_time_steps_ - 2
FirstStep(horizon) == horizon - 2

\* SolveEntry without the checks of the sizes of the arguments.
SolveEntry_unchecked ==
    /\ lqpc = "entry"
    /\ strategies' = NewStrategies(num_time_steps_)
    /\ Zs_' = InitialZs(quadraticization)
    /\ zetas_' = InitialZetas(quadraticization)
    /\ kk' = FirstStep(num_time_steps_)
    /\ lqpc' = "loop"
    /\ UNCHANGED <<num_time_steps_, linearization, quadraticization,
                   S_, Y_, X_, F_, beta_, steps,
                   remembered>>
    /\ UNCHANGED outsideLq

\* SolveEntry that leaves zetas_ as the previous call left it.
SolveEntry_stale_zetas ==
    /\ lqpc = "entry"
    /\ Size(linearization) = num_time_steps_
    /\ Size(quadraticization) = num_time_steps_
    /\ strategies' = NewStrategies(num_time_steps_)
    /\ Zs_' = InitialZs(quadraticization)
    /\ kk' = FirstStep(num_time_steps_)
    /\ lqpc' = "loop"
    /\ UNCHANGED <<num_time_steps_, linearization, quadraticization,
                   zetas_, S_, Y_, X_, F_, beta_, steps, remembered>>
    /\ UNCHANGED outsideLq

\* Lines 596-615: the checks pass; strategies, Zs, zetas, first kk.
SolveEntry ==
    /\ lqpc = "entry"
    /\ Size(linearization) = num_time_steps_
    /\ Size(quadraticization) = num_time_steps_
    /\ strategies' = NewStrategies(num_time_steps_)
    /\ Zs_' = InitialZs(quadraticization)
    /\ zetas_' = InitialZetas(quadraticization)
    /\ kk' = FirstStep(num_time_steps_)
    /\ lqpc' = "loop"
    /\ UNCHANGED <<num_time_steps_, linearization, quadraticization,
                   S_, Y_, X_, F_, beta_, steps,
                   remembered>>
    /\ UNCHANGED outsideLq

\* Line 627: B[ii]' * Z[ii]
BiZi(lin, Zs, ii) == MatMul(Transpose(lin.Bs[ii]), Zs[ii])

\* S_block with the column player's Z in the off-diagonal blocks.
S_block_Zj(lin, quad, Zs, ii, jj) ==
    IF ii = jj
    THEN MatAdd(MatMul(BiZi(lin, Zs, ii), lin.Bs[ii]),
                quad[ii].control[ii].hess)
    ELSE MatMul(MatMul(Transpose(lin.Bs[ii]), Zs[jj]), lin.Bs[jj])

\* Lines 635-643: the block of S in block row ii and block column jj.
S_block(lin, quad, Zs, ii, jj) ==
    IF ii = jj
    THEN MatAdd(MatMul(BiZi(lin, Zs, ii), lin.Bs[ii]),
                quad[ii].control[ii].hess)
    ELSE MatMul(BiZi(lin, Zs, ii), lin.Bs[jj])

\* Lines 650-651: the first XDim columns of block row ii of Y.
Y_block(lin, Zs, ii) == MatMul(BiZi(lin, Zs, ii), lin.A)

\* Lines 652-654: the last column of block row ii of Y.
Y_col(lin, quad, zetas, ii) ==
    MatAdd(MatMul(Transpose(lin.Bs[ii]), zetas[ii]),
           quad[ii].control[ii].grad)

\* Line 638: CHECK(control_iter != quad[ii].control.end())
HasOwnControlCost(quad, ii) == ii \in DOMAIN quad[ii].control

\* Lines 630-647: the blocks (ii, jj), (ii, jj + 1), ... of S, up to the
\* block at which the CHECK of line 638 fails.
RECURSIVE FillRow(_, _, _, _, _, _)
FillRow(S, lin, quad, Zs, ii, jj) ==
    IF jj = NumPlayers \/ (jj = ii /\ ~HasOwnControlCost(quad, ii)) THEN S
    ELSE FillRow(SetBlock(S, CumulativeUDim(ii), CumulativeUDim(jj),
                          S_block(lin, quad, Zs, ii, jj)),
                 lin, quad, Zs, ii, jj + 1)

\* Lines 624-658: the block rows ii, ii + 1, ... of S and Y; ok tells
\* whether every CHECK passed.
RECURSIVE Populate(_, _, _, _, _, _)
Populate(SY, lin, quad, Zs, zetas, ii) ==
    IF ii = NumPlayers THEN SY
    ELSE LET S1 == FillRow(SY.S, lin, quad, Zs, ii, 0) IN
         IF ~HasOwnControlCost(quad, ii)
         THEN [S |-> S1, Y |-> SY.Y, ok |-> FALSE]
         ELSE LET Y1 == SetBlock(SY.Y, CumulativeUDim(ii), 0,
                                 Y_block(lin, Zs, ii))
                  Y2 == SetBlock(Y1, CumulativeUDim(ii), XDim,
                                 Y_col(lin, quad, zetas, ii))
              IN  Populate([S |-> S1, Y |-> Y2, ok |-> TRUE],
                           lin, quad, Zs, zetas, ii + 1)

\* Lines 615-658: the loop test succeeds; populate S and Y for step kk.
PopulateSY ==
    /\ lqpc = "loop"
    /\ kk >= 0
    /\ LET r == Populate([S |-> S_, Y |-> Y_, ok |-> TRUE],
                         linearization[kk], quadraticization[kk],
                         Zs_, zetas_, 0)
       IN  /\ S_' = r.S
           /\ Y_' = r.Y
           /\ lqpc' = IF r.ok THEN "populated" ELSE "aborted"
    /\ UNCHANGED <<num_time_steps_, linearization, quadraticization,
                   strategies, kk, Zs_, zetas_, X_, F_, beta_, steps,
                   remembered>>
    /\ UNCHANGED outsideLq

\* SolveLinearSystem that aborts when S is singular.
SolveLinearSystem_checked ==
    /\ lqpc = "populated"
    /\ X_' = QrSolve(S_, Y_)
    /\ lqpc' = IF Det(S_) = Zero THEN "aborted" ELSE "solved"
    /\ UNCHANGED <<num_time_steps_, linearization, quadraticization,
                   strategies, kk, Zs_, zetas_, S_, Y_, F_, beta_, steps,
                   remembered>>
    /\ UNCHANGED outsideLq

\* Lines 660-662: X_ = S_.householderQr().solve(Y_)
SolveLinearSystem ==
    /\ lqpc = "populated"
    /\ X_' = QrSolve(S_, Y_)
    /\ lqpc' = "solved"
    /\ UNCHANGED <<num_time_steps_, linearization, quadraticization,
                   strategies, kk, Zs_, zetas_, S_, Y_, F_, beta_, steps,
                   remembered>>
    /\ UNCHANGED outsideLq

\* StrategiesWith that stores the gains of step k at index k + 1.
StrategiesWith_next(strats, X, k) ==
    [ii \in Players |->
        [Ps |-> [strats[ii].Ps EXCEPT ![k + 1] = Ps_(X, ii)],
         alphas |-> [strats[ii].alphas EXCEPT ![k + 1] = alphas_(X, ii)]]]

\* Lines 664-668: the strategies at step k.
StrategiesWith(strats, X, k) ==
    [ii \in Players |->
        [Ps |-> [strats[ii].Ps EXCEPT ![k] = Ps_(X, ii)],
         alphas |-> [strats[ii].alphas EXCEPT ![k] = alphas_(X, ii)]]]

SetStrategy ==
    /\ lqpc = "solved"
    /\ strategies' = StrategiesWith(strategies, X_, kk)
    /\ lqpc' = "stored"
    /\ UNCHANGED <<num_time_steps_, linearization, quadraticization,
                   kk, Zs_, zetas_, S_, Y_, X_, F_, beta_, steps,
                   remembered>>
    /\ UNCHANGED outsideLq

\* Lines 670-676: F = A - sum B[ii] P[ii], beta = - sum B[ii] alpha[ii]
RECURSIVE ClosedLoopF(_, _, _)
ClosedLoopF(lin, X, n) ==
    IF n = 0 THEN lin.A
    ELSE MatSub(ClosedLoopF(lin, X, n - 1),
                MatMul(lin.Bs[n - 1], Ps_(X, n - 1)))

RECURSIVE ClosedLoopBeta(_, _, _)
ClosedLoopBeta(lin, X, n) ==
    IF n = 0 THEN Mat(XDim, 1, Zero)
    ELSE MatSub(ClosedLoopBeta(lin, X, n - 1),
                MatMul(lin.Bs[n - 1], alphas_(X, n - 1)))

ComputeFBeta ==
    /\ lqpc = "stored"
    /\ F_' = ClosedLoopF(linearization[kk], X_, NumPlayers)
    /\ beta_' = ClosedLoopBeta(linearization[kk], X_, NumPlayers)
    /\ lqpc' = "closed"
    /\ UNCHANGED <<num_time_steps_, linearization, quadraticization,
                   strategies, kk, Zs_, zetas_, S_, Y_, X_, steps,
                   remembered>>
    /\ UNCHANGED outsideLq

\* AddControlTerms with the gain of the other player in each term.
RECURSIVE AddControlTerms_otherP(_, _, _, _)
AddControlTerms_otherP(v, control, X, n) ==
    IF n = 0 THEN v
    ELSE LET w == AddControlTerms_otherP(v, control, X, n - 1)
             jj == n - 1
             other == NumPlayers - 1 - jj
         IN  IF jj \notin DOMAIN control THEN w
             ELSE LET Rij == control[jj].hess
                      rij == control[jj].grad
                      PjT == Transpose(Ps_(X, other))
                  IN  [zeta |-> MatAdd(w.zeta,
                                   MatMul(PjT,
                                      MatSub(MatMul(Rij, alphas_(X, jj)),
                                             rij))),
                       Z |-> MatAdd(w.Z,
                                MatMul(MatMul(PjT, Rij), Ps_(X, other)))]

\* Lines 685-692: the terms of the Rij of player ii's control map, for the
\* keys below n, added to the value v = [Z, zeta].
RECURSIVE AddControlTerms(_, _, _, _)
AddControlTerms(v, control, X, n) ==
    IF n = 0 THEN v
    ELSE LET w == AddControlTerms(v, control, X, n - 1)
             jj == n - 1
         IN  IF jj \notin DOMAIN control THEN w
             ELSE LET Rij == control[jj].hess
                      rij == control[jj].grad
                      PjT == Transpose(Ps_(X, jj))
                  IN  [zeta |-> MatAdd(w.zeta,
                                   MatMul(PjT,
                                      MatSub(MatMul(Rij, alphas_(X, jj)),
                                             rij))),
                       Z |-> MatAdd(w.Z,
                                MatMul(MatMul(PjT, Rij), Ps_(X, jj)))]

\* UpdatedValue with Z updated before zeta, so that zeta reads the new Z.
UpdatedValue_newZ(quad, Zs, zetas, F, beta, X, ii) ==
    LET FT == Transpose(F)
        Z1 == MatAdd(MatMul(MatMul(FT, Zs[ii]), F), quad[ii].state.hess)
        zeta1 == MatAdd(MatMul(FT, MatAdd(zetas[ii], MatMul(Z1, beta))),
                        quad[ii].state.grad)
    IN  AddControlTerms([zeta |-> zeta1, Z |-> Z1], quad[ii].control, X,
                        NumPlayers)

\* Lines 680-692: the new value [Z, zeta] of player ii.
UpdatedValue(quad, Zs, zetas, F, beta, X, ii) ==
    LET FT == Transpose(F)
        zeta1 == MatAdd(MatMul(FT, MatAdd(zetas[ii], MatMul(Zs[ii], beta))),
                        quad[ii].state.grad)
        Z1 == MatAdd(MatMul(MatMul(FT, Zs[ii]), F), quad[ii].state.hess)
    IN  AddControlTerms([zeta |-> zeta1, Z |-> Z1], quad[ii].control, X,
                        NumPlayers)

\* Lines 678-694, 615: update Zs and zetas; kk--.
UpdateValues ==
    /\ lqpc = "closed"
    /\ Zs_' = [ii \in Players |->
                 UpdatedValue(quadraticization[kk], Zs_, zetas_, F_, beta_,
                              X_, ii).Z]
    /\ zetas_' = [ii \in Players |->
                    UpdatedValue(quadraticization[kk], Zs_, zetas_, F_,
                                 beta_, X_, ii).zeta]
    /\ steps' = Append(steps, kk)
    /\ kk' = kk - 1
    /\ lqpc' = "loop"
    /\ UNCHANGED <<num_time_steps_, linearization, quadraticization,
                   strategies, S_, Y_, X_, F_, beta_, remembered>>
    /\ UNCHANGED outsideLq

\* Lines 615, 696: the loop test fails; return strategies.
ReturnStrategies ==
    /\ lqpc = "loop"
    /\ ~(kk >= 0)
    /\ lqpc' = "done"
    /\ UNCHANGED <<num_time_steps_, linearization, quadraticization,
                   strategies, kk, Zs_, zetas_, S_, Y_, X_, F_, beta_, steps,
                   remembered>>
    /\ UNCHANGED outsideLq

\* Lines 592-595: Solve is called again on the same solver, after a call that
\* returned. The members keep what that call left in them; its arguments
\* and result are remembered, or not, and `between` tells whether a call with
\* other arguments has begun since the remembered one.
SolveAgain ==
    /\ lqpc = "done"
    /\ \E c \in InputChoices(num_time_steps_) :
         /\ linearization' = LinearizationOf(c)
         /\ quadraticization' = QuadraticizationOf(c)
    /\ \/ remembered' = <<[linearization |-> linearization,
                           quadraticization |-> quadraticization,
                           strategies |-> strategies,
                           between |-> FALSE]>>
       \/ /\ remembered = <<>>
          /\ UNCHANGED remembered
       \/ /\ remembered # <<>>
          /\ remembered' =
                <<[remembered[1] EXCEPT !.between =
                      \/ @
                      \/ linearization' # remembered[1].linearization
                      \/ quadraticization' #
                            remembered[1].quadraticization]>>
    /\ strategies' = None
    /\ kk' = None
    /\ steps' = <<>>
    /\ lqpc' = "entry"
    /\ UNCHANGED <<num_time_steps_, Zs_, zetas_, S_, Y_, X_, F_, beta_>>
    /\ UNCHANGED outsideLq

LqNext ==
    \/ SizeMismatch
    \/ SolveEntry
    \/ PopulateSY
    \/ SolveLinearSystem
    \/ SetStrategy
    \/ ComputeFBeta
    \/ UpdateValues
    \/ ReturnStrategies
    \/ SolveAgain

SpecLQ == LqInit /\ [][LqNext]_vars

(***************************************************************************)
(* Properties of LQFeedbackSolver::Solve (specification SpecLQ).           *)
(***************************************************************************)
\* The sequence <<from, from - 1, ..., 0>>; empty when from < 0.
CountDown(from) == [i \in 1..(from + 1) |-> from + 1 - i]

\* Every entry of the matrix is finite.
AllFinite(M) == \A i \in 1..Rows(M) : \A j \in 1..Cols(M) : IsFinite(M[i][j])

\* C8, as amended: every player's returned strategy has exactly K gain
\* matrices and exactly K feedforward vectors, K the horizon of the solver.
C8_StrategyLength ==
    lqpc = "done" =>
        \A ii \in Players :
            /\ DOMAIN strategies[ii].Ps = 0..(num_time_steps_ - 1)
            /\ DOMAIN strategies[ii].alphas = 0..(num_time_steps_ - 1)

\* C8, as claimed: every player's returned strategy has exactly K - 1 gain
\* matrices and exactly K - 1 feedforward vectors.
C8_Original ==
    lqpc = "done" =>
        \A ii \in Players :
            /\ Size(strategies[ii].Ps) = num_time_steps_ - 1
            /\ Size(strategies[ii].alphas) = num_time_steps_ - 1

C8_Witness ==
    /\ lqpc = "done"
    /\ num_time_steps_ = 3
    /\ Size(strategies[1].Ps) = 3
    /\ steps = <<1, 0>>

\* C9, as amended: until the first backward step ends, each player's
\* (Z, zeta) is the state cost of the last quadraticization entry; the
\* backward steps run for k = K - 2 down to 0, one each, in decreasing order.
C9_BackwardOrder ==
    /\ lqpc \in {"loop", "populated", "solved", "stored", "closed"}
         /\ steps = <<>> =>
           \A ii \in Players :
              LET last == quadraticization[num_time_steps_ - 1][ii].state
              IN  Zs_[ii] = last.hess /\ zetas_[ii] = last.grad
    /\ lqpc \in {"loop", "populated", "solved", "stored", "closed"} =>
           steps = SubSeq(CountDown(num_time_steps_ - 2), 1, Len(steps))
    /\ lqpc \in {"populated", "solved", "stored", "closed"} =>
           kk = num_time_steps_ - 2 - Len(steps)
    /\ lqpc = "done" => steps = CountDown(num_time_steps_ - 2)

\* C9, as claimed: the backward steps run for k = K - 1 down to 0.
C9_Original ==
    lqpc = "done" => steps = CountDown(num_time_steps_ - 1)

C9_Witness ==
    /\ lqpc = "done"
    /\ num_time_steps_ = 3
    /\ steps = <<1, 0>>
    /\ Zs_[0] # quadraticization[2][0].state.hess

\* C10: when S and Y have been populated at step k, block (i, j) of S is
\* Bi' Zi Bj, plus Rii when i = j, and block row i of Y is
\* [Bi' Zi A | Bi' zeta_i + r_ii], with Zi and zeta_i the running value of
\* player i and A, B, R, r the entries of index k.
C10_CouplingSystem ==
    lqpc = "populated" =>
        LET lin == linearization[kk]
            quad == quadraticization[kk]
        IN  \A ii \in Players :
              LET BiT == Transpose(lin.Bs[ii])
                  own == quad[ii].control[ii]
                  row == CumulativeUDim(ii)
              IN  /\ \A jj \in Players :
                        Block(S_, row, CumulativeUDim(jj), UDim(ii), UDim(jj))
                          = LET BZB == MatMul(BiT, MatMul(Zs_[ii], lin.Bs[jj]))
                            IN  IF ii = jj THEN MatAdd(BZB, own.hess) ELSE BZB
                  /\ Block(Y_, row, 0, UDim(ii), XDim)
                       = MatMul(BiT, MatMul(Zs_[ii], lin.A))
                  /\ Block(Y_, row, XDim, UDim(ii), 1)
                       = MatAdd(MatMul(BiT, zetas_[ii]), own.grad)

C10_Witness ==
    /\ lqpc = "populated"
    /\ num_time_steps_ = 3
    /\ kk = 0
    /\ Zs_[0] # Zs_[1]
    /\ linearization[0] # linearization[1]
    /\ S_[1][2] # S_[2][1]
    /\ AllFinite(S_) /\ AllFinite(Y_)
    /\ Y_[1][XDim + 1] # 0

\* The sum of a non-empty sequence of matrices.
RECURSIVE MatSum(_)
MatSum(ms) ==
    IF Len(ms) = 1 THEN ms[1]
    ELSE MatAdd(MatSum(SubSeq(ms, 1, Len(ms) - 1)), ms[Len(ms)])

\* P_j and alpha_j of the backward step in progress, as stored in the
\* strategies.
GainAt(jj) == strategies[jj].Ps[kk]
FeedforwardAt(jj) == strategies[jj].alphas[kk]

\* F = A - sum_j B_j P_j and beta = - sum_j B_j alpha_j of the backward step
\* in progress.
StepF ==
    MatSub(linearization[kk].A,
           MatSum([j \in 1..NumPlayers |->
                      MatMul(linearization[kk].Bs[j - 1], GainAt(j - 1))]))

StepBeta ==
    MatSub(Mat(XDim, 1, Zero),
           MatSum([j \in 1..NumPlayers |->
                      MatMul(linearization[kk].Bs[j - 1],
                             FeedforwardAt(j - 1))]))

C12_LinearValueUpdate ==
    [][lqpc = "closed" =>
         \A ii \in Players :
            LET quad == quadraticization[kk][ii]
                rterm(jj) ==
                    IF jj \in DOMAIN quad.control
                    THEN MatMul(Transpose(GainAt(jj)),
                                MatSub(MatMul(quad.control[jj].hess,
                                              FeedforwardAt(jj)),
                                       quad.control[jj].grad))
                    ELSE Mat(XDim, 1, Zero)
            IN  zetas_'[ii] =
                  MatAdd(MatAdd(MatMul(Transpose(StepF),
                                       MatAdd(zetas_[ii],
                                              MatMul(Zs_[ii], StepBeta))),
                                quad.state.grad),
                         MatSum([j \in 1..NumPlayers |-> rterm(j - 1)]))]_vars

C12_Witness ==
    /\ lqpc = "loop"
    /\ steps = <<1, 0>>
    /\ AllFinite(zetas_[0]) /\ AllFinite(zetas_[1])
    /\ zetas_[0] # Mat(XDim, 1, Zero)
    /\ beta_ # Mat(XDim, 1, Zero)
    /\ Zs_[0] # quadraticization[2][0].state.hess

\* C13: after every backward step each player's Z_i equals its transpose,
\* whether or not the input Q_i and R_ij are symmetric.
C13_Symmetrized ==
    lqpc = "loop" /\ steps # <<>> =>
        \A ii \in Players : Zs_[ii] = Transpose(Zs_[ii])

\* The arguments of Solve have the length of the solver's horizon.
SizesMatch ==
    /\ Size(linearization) = num_time_steps_
    /\ Size(quadraticization) = num_time_steps_

\* Some player has no cost on its own control at step k.
MissingOwnCost(k) ==
    \E ii \in Players : ~HasOwnControlCost(quadraticization[k], ii)

\* The steps 0..K-2 at which some player has no cost on its own control.
MissingSteps ==
    {k \in 0..(num_time_steps_ - 2) :
        k \in DOMAIN quadraticization /\ MissingOwnCost(k)}

InBackwardStep == lqpc \in {"populated", "solved", "stored", "closed"}

\* C14, as amended: a configuration error is detected fatally during Solve.
\* Arguments whose length differs from the horizon abort at entry; a missing
\* own control cost aborts at the backward step k <= K - 2 that reads it,
\* after the steps above it have run; one at the last index K - 1 is never
\* read. Solve aborts for no other reason.
C14_DetectedInSolve ==
    /\ ~SizesMatch => lqpc \in {"entry", "aborted"} /\ steps = <<>>
    /\ InBackwardStep => ~MissingOwnCost(kk)
    /\ lqpc = "done" => SizesMatch /\ MissingSteps = {}
    /\ lqpc = "aborted" /\ SizesMatch =>
          /\ kk \in MissingSteps
          /\ \A k \in MissingSteps : k <= kk
          /\ steps = SubSeq(CountDown(num_time_steps_ - 2), 1, Len(steps))
          /\ Len(steps) = num_time_steps_ - 2 - kk

\* C14, as claimed: Solve never aborts on a configuration error.
C14_Original ==
    ~SizesMatch \/ MissingSteps # {} => lqpc # "aborted"

C14_Witness ==
    /\ lqpc = "aborted"
    /\ num_time_steps_ = 3
    /\ steps = <<1>>
    /\ MissingSteps = {0}

C16_TerminalCostOnly ==
    num_time_steps_ = 1 =>
        /\ ~InBackwardStep
        /\ lqpc = "done" =>
              /\ steps = <<>>
              /\ \A ii \in Players :
                    /\ strategies[ii] = Strategy(1, XDim, UDim(ii))
                    /\ DOMAIN strategies[ii].Ps = {0}
                    /\ DOMAIN strategies[ii].alphas = {0}

\* C16, as claimed: with K = 1 Solve performs no backward step and returns
\* strategies with no gain and no feedforward term.
C16_Original ==
    num_time_steps_ = 1 /\ lqpc = "done" =>
        /\ steps = <<>>
        /\ \A ii \in Players :
              /\ DOMAIN strategies[ii].Ps = {}
              /\ DOMAIN strategies[ii].alphas = {}

C16_Witness ==
    /\ num_time_steps_ = 1
    /\ lqpc = "done"
    /\ strategies[0].Ps[0] = Mat(UDim(0), XDim, Zero)
    /\ Zs_[0] = quadraticization[0][0].state.hess

\* C17: a call of Solve returns the strategies that an earlier call on the
\* same solver returned for equal arguments, whatever the calls in between
\* were given and whatever the workspaces held at construction.
C17_HistoryIndependent ==
    /\ lqpc = "done"
    /\ remembered # <<>>
    /\ remembered[1].linearization = linearization
    /\ remembered[1].quadraticization = quadraticization
    => strategies = remembered[1].strategies

C17_Witness ==
    /\ lqpc = "done"
    /\ remembered # <<>>
    /\ remembered[1].between
    /\ remembered[1].linearization = linearization
    /\ remembered[1].quadraticization = quadraticization
    /\ num_time_steps_ = 3
    /\ AllFinite(strategies[0].Ps[0])
    /\ strategies[0].alphas[0] # Mat(UDim(0), 1, Zero)
    /\ strategies[1].Ps[1] # strategies[1].Ps[0]

\* The positions of Solve at which the local `strategies` exists.
HasStrategies ==
    lqpc \in {"loop", "populated", "solved", "stored", "closed", "done"}

\* C21: the entries of index k of the strategies are written once for each
\* k in 0..K-2, in decreasing k, with the gains of step k; index K-1 is never
\* written, and in the returned strategies it is as the constructor of
\* Strategy left it.
C21_LastEntryUntouched ==
    [][/\ lqpc = "solved" =>
             /\ kk = num_time_steps_ - 2 - Len(steps)
             /\ kk \in 0..(num_time_steps_ - 2)
             /\ \A i \in 1..Len(steps) : steps[i] > kk
             /\ lqpc' = "stored"
             /\ \A ii \in Players :
                   /\ strategies'[ii].Ps[kk] = Ps_(X_, ii)
                   /\ strategies'[ii].alphas[kk] = alphas_(X_, ii)
       /\ HasStrategies /\ HasStrategies' =>
             \A ii \in Players : \A k \in 0..(num_time_steps_ - 1) :
                \/ /\ strategies'[ii].Ps[k] = strategies[ii].Ps[k]
                   /\ strategies'[ii].alphas[k] = strategies[ii].alphas[k]
                \/ lqpc = "solved" /\ k = kk
       /\ lqpc' = "done" =>
             /\ steps' = CountDown(num_time_steps_ - 2)
             /\ \A ii \in Players :
                   LET last == num_time_steps_ - 1
                       made == Strategy(num_time_steps_, XDim, UDim(ii))
                   IN  /\ strategies'[ii].Ps[last] = made.Ps[last]
                       /\ strategies'[ii].alphas[last] = made.alphas[last]
      ]_vars

C21_Witness ==
    /\ lqpc = "done"
    /\ num_time_steps_ = 3
    /\ strategies[0].Ps[2] = Mat(UDim(0), XDim, Zero)
    /\ strategies[0].alphas[2] = Mat(UDim(0), 1, Zero)
    /\ AllFinite(strategies[0].Ps[1])
    /\ strategies[0].Ps[1] # Mat(UDim(0), XDim, Zero)
    /\ strategies[0].Ps[0] # strategies[0].Ps[1]
    /\ strategies[1].alphas[0] # Mat(UDim(1), 1, Zero)

\* C25: a call of Solve with a linearization or a quadraticization whose
\* length is not num_time_steps_ aborts as its first step, with every member
\* of the solver as it was and no local created.
C25_MismatchLeavesSolver ==
    [][lqpc = "entry" /\ ~SizesMatch =>
          /\ lqpc' = "aborted"
          /\ strategies' = None /\ kk' = None /\ steps' = <<>>
          /\ UNCHANGED <<num_time_steps_, Zs_, zetas_, S_, Y_, X_, F_,
                         beta_>>
      ]_vars

C25_Witness ==
    /\ lqpc = "aborted"
    /\ ~SizesMatch
    /\ remembered # <<>>
    /\ num_time_steps_ = 3
    /\ Size(linearization) = 3
    /\ Size(quadraticization) = 2
    /\ AllFinite(X_)
    /\ X_ # Mat(TotalUDim, XDim + 1, Zero)
    /\ Zs_ # InitialZs(quadraticization)

(***************************************************************************)
(* ControlSliders (oncoming_example.h, lines 121-160)                      *)
(***************************************************************************)
\* Most logs the sliders range over.
MaxLogs == 2
\* Most iterates a log holds.
MaxNumIterates == 2
\* Largest value a slider variable is given; the smallest is -1.
MaxSliderValue == 3

\* std::min and std::max.
Min(a, b) == IF b < a THEN b ELSE a
Max(a, b) == IF a < b THEN b ELSE a

\* What a SolverLog answers to InitialTime(), FinalTime() and NumIterates().
\* Log number k of a receding-horizon run starts at tick k and plans one
\* tick ahead; a log may hold no iterate at all.
SolverLogs(n) ==
    {[k \in 1..n |-> [InitialTime |-> k - 1, FinalTime |-> k,
                      NumIterates |-> its[k]]] :
        its \in [1..n -> 0..MaxNumIterates]}

LogLists == UNION {SolverLogs(n) : n \in 0..MaxLogs}

\* Values Render may leave in a slider variable.
SliderValues == (0 - 1)..MaxSliderValue

\* What a read through a pointer outside logs_ may find.
GarbageLogs ==
    [InitialTime : 0..MaxLogs, FinalTime : 0..MaxLogs,
     NumIterates : 0..MaxNumIterates]

\* ControlSliders(logs): every stored value starts at 0.
SlidersInit ==
    /\ RhsIdle
    /\ LqIdle
    /\ ExIdle
    /\ guipc = "constructed"
    /\ logs_ \in LogLists
    /\ interpolation_time_ = 0
    /\ solver_iterate_ = 0
    /\ log_index_ = 0
    /\ shown = None

LogIndex_stored == log_index_

\* int LogIndex() const.  logs_.size() - 1 is computed in size_t and cast to
\* int: for an empty logs_ it wraps around and the cast yields -1, which is
\* what the subtraction of integers gives too.
LogIndex == Min(log_index_, Len(logs_) - 1)

\* Whether logs_[LogIndex()] names an element of logs_.
LogIndexInRange == LogIndex \in 0..(Len(logs_) - 1)

\* What logs_[LogIndex()] yields: the element, or anything at all when the
\* index is outside the vector.
SelectedLogs == IF LogIndexInRange THEN {logs_[LogIndex + 1]} ELSE GarbageLogs

\* int SolverIterate() const, given the log that logs_[LogIndex()] yields.
SolverIterate(log) == Min(solver_iterate_, log.NumIterates - 1)

\* Time InterpolationTime() const, given the same.
InterpolationTime(log) ==
    Max(Min(interpolation_time_, log.FinalTime), log.InitialTime)

\* void Render(): its body is not among the modelled files, so it may store
\* any value in each of the three slider variables.
Render ==
    /\ guipc \in {"constructed", "rendered", "read"}
    /\ interpolation_time_' \in SliderValues
    /\ solver_iterate_' \in SliderValues
    /\ log_index_' \in SliderValues
    /\ guipc' = "rendered"
    /\ shown' = None
    /\ UNCHANGED logs_
    /\ UNCHANGED outsideGui

\* A caller reads the three accessors.
ReadSliders ==
    /\ guipc \in {"constructed", "rendered"}
    /\ \E log \in SelectedLogs :
         shown' = [log |-> LogIndex,
                   iterate |-> SolverIterate(log),
                   time |-> InterpolationTime(log)]
    /\ guipc' = "read"
    /\ UNCHANGED <<logs_, interpolation_time_, solver_iterate_, log_index_>>
    /\ UNCHANGED outsideGui

\* The read outside logs_ may also end the program.
ReadFaults ==
    /\ guipc \in {"constructed", "rendered"}
    /\ ~LogIndexInRange
    /\ guipc' = "crashed"
    /\ UNCHANGED <<logs_, interpolation_time_, solver_iterate_, log_index_,
                   shown>>
    /\ UNCHANGED outsideGui

SlidersNext ==
    \/ Render
    \/ ReadSliders
    \/ ReadFaults

SpecSliders == SlidersInit /\ [][SlidersNext]_vars

\* The log that the returned index selects, if it selects one.
ShownInRange == shown.log \in 0..(Len(logs_) - 1)

ShownLog == logs_[shown.log + 1]

\* C26 as stated: for any stored slider values the accessors return values
\* valid for the selected log: 0 <= LogIndex() <= logs.size() - 1,
\* 0 <= SolverIterate() <= NumIterates - 1 of the log at LogIndex(), and
\* InitialTime <= InterpolationTime() <= FinalTime of that log.
C26_Original ==
    guipc = "read" =>
        /\ ShownInRange
        /\ shown.iterate \in 0..(ShownLog.NumIterates - 1)
        /\ ShownLog.InitialTime <= shown.time
        /\ shown.time <= ShownLog.FinalTime

\* C26: the accessors clamp the stored index and iterate from above only.
\* When logs_ is not empty and the stored log_index_ is not negative, the
\* read does not leave logs_, 0 <= LogIndex() <= logs.size() - 1 and
\* InitialTime <= InterpolationTime() <= FinalTime of the log at LogIndex();
\* when moreover the stored solver_iterate_ is not negative and that log
\* holds at least one iterate, 0 <= SolverIterate() <= NumIterates - 1.
C26_ClampedFromAbove ==
    (guipc # "idle" /\ Len(logs_) >= 1 /\ log_index_ >= 0) =>
        /\ guipc # "crashed"
        /\ guipc = "read" =>
             /\ ShownInRange
             /\ ShownInRange =>
                  /\ ShownLog.InitialTime <= shown.time
                  /\ shown.time <= ShownLog.FinalTime
                  /\ (solver_iterate_ >= 0 /\ ShownLog.NumIterates >= 1) =>
                         shown.iterate \in 0..(ShownLog.NumIterates - 1)

\* All three stored values lie above their ranges and all three are clamped.
C26_Witness ==
    /\ guipc = "read"
    /\ Len(logs_) = 2
    /\ logs_[1].NumIterates = 1
    /\ logs_[2].NumIterates = 2
    /\ log_index_ = MaxSliderValue
    /\ solver_iterate_ = MaxSliderValue
    /\ interpolation_time_ = MaxSliderValue
    /\ shown = [log |-> 1, iterate |-> 1, time |-> 2]

(***************************************************************************)
(* FlatRoundaboutMergingExample: its constructor (part_000, lines 171-501) *)
(* as far as the players' costs and the solver's parameters go.  The       *)
(* dynamics, the initial strategies, the operating point and x0_ take no   *)
(* part in either and are left out.                                        *)
(***************************************************************************)
\* Largest max_iterations a caller asks for.
MaxIterationsParam == 2

\* static constexpr Time kTimeStep = 0.1;  (2 ticks of 0.05 s)
kTimeStep == 2
\* static constexpr Time kTimeHorizon = 10.0;  (200 ticks of 0.05 s)
kTimeHorizon == 200
\* static constexpr size_t kNumTimeSteps
kNumTimeSteps == kTimeHorizon \div kTimeStep

\* The players P1 .. P4, counted from 0 as the solver counts them.
ExPlayers == 0..3

\* An index into the concatenated state: the named index of one
\* SinglePlayerFlatCar6D after the kNumXDims of the cars before it.  The
\* numbers are defined outside the modelled files, so the sum stays a term.
StateIdx(cars, name) == [cars |-> cars, idx |-> name]

kP1XIdx == StateIdx(0, "kPxIdx")
kP1YIdx == StateIdx(0, "kPyIdx")
kP1HeadingIdx == StateIdx(0, "kThetaIdx")
kP2XIdx == StateIdx(1, "kPxIdx")
kP2YIdx == StateIdx(1, "kPyIdx")
kP3XIdx == StateIdx(2, "kPxIdx")
kP3YIdx == StateIdx(2, "kPyIdx")
kP4XIdx == StateIdx(3, "kPxIdx")
kP4YIdx == StateIdx(3, "kPyIdx")

\* The trust region the constructor asks for.
RevisedTrustRegion ==
    <<kP1XIdx, kP1YIdx, kP2XIdx, kP2YIdx, kP3XIdx, kP3YIdx, kP4XIdx, kP4YIdx>>

\* Trust regions a caller may have asked for.
TrustRegionChoices ==
    {<<>>, <<kP1XIdx>>, <<kP1HeadingIdx, kP2YIdx>>, RevisedTrustRegion}

\* The fields of SolverParams.  Tolerances and step sizes are reals the
\* constructor only copies; each is a term.
SolverParamsChoices ==
    [max_iterations : 1..MaxIterationsParam,
     merit_function : {"sum", "max"},
     convergence_tol_cost : {"convergence_tol_cost"},
     convergence_tol_state : {"convergence_tol_state"},
     convergence_tol_control : {"convergence_tol_control"},
     line_search_step_init : {"line_search_step_init"},
     line_search_shrink : {"line_search_shrink"},
     line_search_step_min : {"line_search_step_min"},
     trust_region_dimensions : TrustRegionChoices,
     trust_region_delta : {"trust_region_delta"},
     open_loop : BOOLEAN,
     log_every_iterate : BOOLEAN]

\* PlayerCost(): no state cost, no control cost.
EmptyPlayerCost == [state |-> <<>>, control |-> <<>>]

\* PlayerCost::AddStateCost
AddStateCost(cost, term) == [cost EXCEPT !.state = Append(@, term)]

\* PlayerCost::AddControlCost: the terms are kept per control index.
AddControlCost(cost, idx, term) ==
    [cost EXCEPT !.control =
        IF idx \in DOMAIN @
        THEN [@ EXCEPT ![idx] = Append(@, term)]
        ELSE [jj \in DOMAIN @ \cup {idx} |->
                 IF jj = idx THEN <<term>> ELSE @[jj]]]

\* PlayerCost::Quadraticize, control part, at time step k: one (R_j, r_j)
\* for every control index j that a term is registered on.
QuadraticizeControl(cost, k) ==
    [jj \in DOMAIN cost.control |->
        [hess |-> <<"R", cost.control[jj], k>>,
         grad |-> <<"r", cost.control[jj], k>>]]

\* The quadraticization the solver builds at time step k from the costs it
\* was constructed with.
ExQuadraticization(costs, k) ==
    [ii \in ExPlayers |->
        [state |-> <<"Q", costs[ii].state, k>>,
         control |-> QuadraticizeControl(costs[ii], k)]]

ExInit ==
    /\ RhsIdle
    /\ LqIdle
    /\ GuiIdle
    /\ expc = "entry"
    /\ params \in SolverParamsChoices
    /\ revised_params = None
    /\ player_costs = None
    /\ solver_ = None

\* Stay in lanes; route progress.  Lines 245-327.
AddLaneCosts ==
    /\ expc = "entry"
    /\ player_costs' =
           [ii \in ExPlayers |->
               AddStateCost(
                   AddStateCost(
                       AddStateCost(
                           AddStateCost(EmptyPlayerCost, "LaneCenter"),
                           "LaneRightBoundary"),
                       "LaneLeftBoundary"),
                   "RouteProgress")]
    /\ expc' = "lanes"
    /\ UNCHANGED <<params, revised_params, solver_>>
    /\ UNCHANGED outsideEx

ControlCostIndex_first(ii) == 0

\* The control index that player ii's control cost is registered on:
\* p1_cost.AddControlCost(0, ..) .. p4_cost.AddControlCost(3, ..).
ControlCostIndex(ii) == ii

\* Penalize control effort.  Lines 385-392.
PenalizeControlEffort ==
    /\ expc = "lanes"
    /\ player_costs' =
           [ii \in ExPlayers |->
               AddControlCost(player_costs[ii], ControlCostIndex(ii),
                              "Auxiliary Input")]
    /\ expc' = "effort"
    /\ UNCHANGED <<params, revised_params, solver_>>
    /\ UNCHANGED outsideEx

\* The proximity costs that are added, in the order they are added: every
\* player gets two of its three.  Lines 440-491.
ProximityCosts(ii) ==
    CASE ii = 0 -> <<"ProximityP2", "ProximityP4">>
      [] ii = 1 -> <<"ProximityP1", "ProximityP3">>
      [] ii = 2 -> <<"ProximityP2", "ProximityP4">>
      [] ii = 3 -> <<"ProximityP1", "ProximityP3">>

\* Pairwise proximity costs.  Lines 440-491.
AddProximityCosts ==
    /\ expc = "effort"
    /\ player_costs' =
           [ii \in ExPlayers |->
               AddStateCost(
                   AddStateCost(player_costs[ii], ProximityCosts(ii)[1]),
                   ProximityCosts(ii)[2])]
    /\ expc' = "proximity"
    /\ UNCHANGED <<params, revised_params, solver_>>
    /\ UNCHANGED outsideEx

\* SolverParams revised_params(params);
CopyParams ==
    /\ expc = "proximity"
    /\ revised_params' = params
    /\ expc' = "copied"
    /\ UNCHANGED <<params, player_costs, solver_>>
    /\ UNCHANGED outsideEx

\* revised_params.trust_region_dimensions = {kP1XIdx, .., kP4YIdx};
SetTrustRegion ==
    /\ expc = "copied"
    /\ revised_params' =
           [revised_params EXCEPT
               !.trust_region_dimensions = RevisedTrustRegion]
    /\ expc' = "revised"
    /\ UNCHANGED <<params, player_costs, solver_>>
    /\ UNCHANGED outsideEx

MakeSolver_caller_params ==
    /\ expc = "revised"
    /\ solver_' = [player_costs |-> player_costs,
                   time_horizon |-> kTimeHorizon,
                   params |-> params,
                   step |-> None]
    /\ expc' = "constructed"
    /\ UNCHANGED <<params, revised_params, player_costs>>
    /\ UNCHANGED outsideEx

\* solver_.reset(new ILQFlatSolver(dynamics_, {p1_cost, .., p4_cost},
\*                                 kTimeHorizon, revised_params));
MakeSolver ==
    /\ expc = "revised"
    /\ solver_' = [player_costs |-> player_costs,
                   time_horizon |-> kTimeHorizon,
                   params |-> revised_params,
                   step |-> None]
    /\ expc' = "constructed"
    /\ UNCHANGED <<params, revised_params, player_costs>>
    /\ UNCHANGED outsideEx

\* The solver quadraticizes the players' costs at some time step and hands
\* the result to the LQ solver, whose CHECK (part_000, line 638) demands an
\* R_ii of every player ii.
QuadraticizeStep ==
    /\ expc \in {"constructed", "solving"}
    /\ \E k \in 0..(kNumTimeSteps - 1) :
         /\ solver_' = [solver_ EXCEPT !.step = k]
         /\ expc' =
                IF \A ii \in ExPlayers :
                       HasOwnControlCost(
                           ExQuadraticization(solver_.player_costs, k), ii)
                THEN "solving"
                ELSE "aborted"
    /\ UNCHANGED <<params, revised_params, player_costs>>
    /\ UNCHANGED outsideEx

ExNext ==
    \/ AddLaneCosts
    \/ PenalizeControlEffort
    \/ AddProximityCosts
    \/ CopyParams
    \/ SetTrustRegion
    \/ MakeSolver
    \/ QuadraticizeStep

SpecExample == ExInit /\ [][ExNext]_vars

\* The fields of SolverParams other than trust_region_dimensions.
OtherFields == DOMAIN params \ {"trust_region_dimensions"}

\* x and y of players 1 to 4.
PositionIndices ==
    {StateIdx(cars, name) : cars \in ExPlayers, name \in {"kPxIdx", "kPyIdx"}}

\* Whether the solver exists after the step.
SolverBuilt == expc' \in {"constructed", "solving", "aborted"}

\* C27: the constructor hands the solver parameters whose
\* trust_region_dimensions are exactly the eight position indices (x and y
\* of players 1 to 4), whatever the caller's were, and whose every other
\* field equals the caller's; no step of the constructor changes the
\* caller's SolverParams.
C27_OnlyTrustRegionRevised ==
    [][/\ params' = params
       /\ SolverBuilt =>
            /\ Len(solver_'.params.trust_region_dimensions) = 8
            /\ {solver_'.params.trust_region_dimensions[n] : n \in 1..8}
                   = PositionIndices
            /\ \A f \in OtherFields : solver_'.params[f] = params[f]]_vars

\* The solver was built for a caller that asked for another trust region
\* and for the non-default merit function.
C27_Witness ==
    /\ expc = "constructed"
    /\ params.trust_region_dimensions = <<kP1HeadingIdx, kP2YIdx>>
    /\ params.merit_function = "max"
    /\ params.max_iterations = MaxIterationsParam
    /\ solver_.params.trust_region_dimensions = RevisedTrustRegion
    /\ solver_.params.merit_function = "max"

\* Whether the control costs have been registered.
ControlCostsAdded == expc \notin {"idle", "entry", "lanes"}

\* C28: once the control costs are registered, every player ii in 0..3 has
\* a control cost on its own control index ii and on no other; so at every
\* time step the quadraticization built from the solver's costs holds an
\* R_ii for every player ii, and the LQ solver's check of it never fails.
C28_OwnControlCostOnly ==
    /\ ControlCostsAdded =>
           \A ii \in ExPlayers : DOMAIN player_costs[ii].control = {ii}
    /\ expc \in {"constructed", "solving"} =>
           \A k \in 0..(kNumTimeSteps - 1), ii \in ExPlayers :
               HasOwnControlCost(
                   ExQuadraticization(solver_.player_costs, k), ii)
    /\ expc # "aborted"

\* The check has passed at the last time step.
C28_Witness ==
    /\ expc = "solving"
    /\ solver_.step = kNumTimeSteps - 1
    /\ \A ii \in ExPlayers :
           /\ solver_.player_costs[ii].control[ii] = <<"Auxiliary Input">>
           /\ Len(solver_.player_costs[ii].state) = 6

====
